---- MODULE Spec2Model ----
(***************************************************************************)
(* A model of todo-rs: the Todo.txt line parser (parser.rs), the line      *)
(* serializer (Display for Todo), Priority (priority.rs) and the TodoList  *)
(* collection (list.rs).                                                   *)
(*                                                                         *)
(* A string is a sequence of characters; a character is a TLA+ string of   *)
(* length one.  Option<T> is a sequence of length 0 (None) or 1 (Some).    *)
(* Result<T> is a record [ok, val, err].                                   *)
(***************************************************************************)
EXTENDS Integers, Sequences, FiniteSets, TLC

VARIABLES
    pc,        \* position of the driver of the current scenario
    text,      \* a line of text (input of parse_todo / output of to_string)
    todo,      \* Option<Todo>: the Task Record at hand
    parsed,    \* Result<Todo> of the first parse_todo of a line
    reparsed,  \* Result<Todo> of parse_todo applied to the rendered line
    todos,     \* TodoList.todos
    last,      \* the last TodoList operation: its name, argument and the list before it
    ret,       \* what the last TodoList / Priority operation returned
    pstr       \* a string handed to Priority::from_str

vars == <<pc, text, todo, parsed, reparsed, todos, last, ret, pstr>>

----------------------------------------------------------------------------
(* Bounds of the model *)

MaxTokens == 3     \* tokens of a generated input line
MaxLabels == 1     \* contexts (and projects) of a generated Task Record
MaxPLen == 4       \* characters of a string handed to Priority::from_str
MaxLen == 3        \* tasks in a TodoList built by add
MaxLines == 3      \* lines of a text handed to from_string

----------------------------------------------------------------------------
(* Option and Result *)

None == <<>>
Some(v) == <<v>>
IsSome(o) == Len(o) = 1
Unwrap(o) == o[1]

Ok(v) == [ok |-> TRUE, val |-> <<v>>, err |-> <<>>]
Err(kind, payload) == [ok |-> FALSE, val |-> <<>>, err |-> <<kind, payload>>]
NoResult == [ok |-> FALSE, val |-> <<>>, err |-> <<>>]

----------------------------------------------------------------------------
(* Characters and strings *)

Code ==
    ("\t" :> 9) @@ ("\n" :> 10) @@ ("\r" :> 13) @@ (" " :> 32) @@
    ("(" :> 40) @@ (")" :> 41) @@ ("+" :> 43) @@ ("-" :> 45) @@
    ("0" :> 48) @@ ("1" :> 49) @@ ("2" :> 50) @@ ("3" :> 51) @@ ("4" :> 52) @@
    ("5" :> 53) @@ ("6" :> 54) @@ ("7" :> 55) @@ ("8" :> 56) @@ ("9" :> 57) @@
    (":" :> 58) @@ ("@" :> 64) @@ ("A" :> 65) @@ ("B" :> 66) @@ ("C" :> 67) @@
    ("M" :> 77) @@ ("Z" :> 90) @@ ("[" :> 91) @@
    ("a" :> 97) @@ ("b" :> 98) @@ ("c" :> 99) @@ ("d" :> 100) @@ ("j" :> 106) @@
    ("k" :> 107) @@ ("l" :> 108) @@ ("m" :> 109) @@ ("o" :> 111) @@
    ("p" :> 112) @@ ("v" :> 118) @@ ("w" :> 119) @@ ("x" :> 120)

is_whitespace(c) == c \in {" ", "\t", "\n", "\r"}
is_ascii_uppercase(c) == Code[c] >= 65 /\ Code[c] <= 90
is_ascii_digit(c) == Code[c] >= 48 /\ Code[c] <= 57

starts_with(s, c) == Len(s) >= 1 /\ s[1] = c
ends_with(s, c) == Len(s) >= 1 /\ s[Len(s)] = c
contains(s, c) == \E i \in 1..Len(s) : s[i] = c
contains_whitespace(s) == \E i \in 1..Len(s) : is_whitespace(s[i])

RECURSIVE trim_start(_)
trim_start(s) ==
    IF s # <<>> /\ is_whitespace(Head(s)) THEN trim_start(Tail(s)) ELSE s

RECURSIVE trim_end(_)
trim_end(s) ==
    IF s # <<>> /\ is_whitespace(s[Len(s)])
    THEN trim_end(SubSeq(s, 1, Len(s) - 1)) ELSE s

trim(s) == trim_end(trim_start(s))

\* str::split_whitespace: the maximal runs of non-whitespace characters
RECURSIVE SplitWs(_, _, _)
SplitWs(s, cur, acc) ==
    IF s = <<>> THEN (IF cur = <<>> THEN acc ELSE Append(acc, cur))
    ELSE IF is_whitespace(Head(s))
         THEN SplitWs(Tail(s), <<>>, IF cur = <<>> THEN acc ELSE Append(acc, cur))
         ELSE SplitWs(Tail(s), Append(cur, Head(s)), acc)

split_whitespace(s) == SplitWs(s, <<>>, <<>>)

\* str::split_once(':'): the text before and after the first ':'
RECURSIVE FindChar(_, _, _)
FindChar(s, c, i) ==
    IF i > Len(s) THEN 0 ELSE IF s[i] = c THEN i ELSE FindChar(s, c, i + 1)

split_once(s, c) ==
    LET i == FindChar(s, c, 1)
    IN  IF i = 0 THEN None
        ELSE Some(<<SubSeq(s, 1, i - 1), SubSeq(s, i + 1, Len(s))>>)

\* str::lines: split at "\n", drop one "\r" before it, no final empty line
RECURSIVE SplitLines(_, _, _)
SplitLines(s, cur, acc) ==
    IF s = <<>> THEN (IF cur = <<>> THEN acc ELSE Append(acc, cur))
    ELSE IF Head(s) = "\n"
         THEN SplitLines(Tail(s), <<>>,
                Append(acc, IF ends_with(cur, "\r")
                            THEN SubSeq(cur, 1, Len(cur) - 1) ELSE cur))
         ELSE SplitLines(Tail(s), Append(cur, Head(s)), acc)

lines(s) == SplitLines(s, <<>>, <<>>)

\* Ord for String: lexicographic by character code
RECURSIVE StrLess(_, _)
StrLess(a, b) ==
    IF b = <<>> THEN FALSE
    ELSE IF a = <<>> THEN TRUE
    ELSE IF Code[Head(a)] < Code[Head(b)] THEN TRUE
    ELSE IF Code[Head(a)] > Code[Head(b)] THEN FALSE
    ELSE StrLess(Tail(a), Tail(b))

RECURSIVE Flatten(_)
Flatten(ss) == IF ss = <<>> THEN <<>> ELSE Head(ss) \o Flatten(Tail(ss))

\* [T]::join(sep)
RECURSIVE join(_, _)
join(ss, sep) ==
    IF ss = <<>> THEN <<>>
    ELSE IF Len(ss) = 1 THEN ss[1]
    ELSE ss[1] \o sep \o join(Tail(ss), sep)

----------------------------------------------------------------------------
(* priority.rs *)

\* Priority::new
Priority_new_AcceptAnyLetter(c) ==
    IF is_ascii_uppercase(c) \/ (Code[c] >= 97 /\ Code[c] <= 122)
    THEN Some(c) ELSE None

Priority_new(c) == IF is_ascii_uppercase(c) THEN Some(c) ELSE None

\* impl Display for Priority
Priority_fmt(p) == <<"(", p, ")">>

\* Priority::new(c).ok_or_else(|| InvalidPriority(..c..)) (priority.rs:35-40)
ok_or_invalid(opt, c) == IF IsSome(opt) THEN Ok(Unwrap(opt)) ELSE Err("InvalidPriority", <<c>>)

\* impl FromStr for Priority
Priority_from_str(s) ==
    IF Len(s) = 3 /\ starts_with(s, "(") /\ ends_with(s, ")")
    THEN ok_or_invalid(Priority_new(s[2]), s[2])
    ELSE Err("InvalidPriority", s)

----------------------------------------------------------------------------
(* chrono::NaiveDate with the format "%Y-%m-%d"; a date is <<year, month, day>> *)

DigitChar(n) == CHOOSE c \in DOMAIN Code : Code[c] = 48 + n

\* the number of consecutive digits of s from position i on, at most max
RECURSIVE CountDigits(_, _, _)
CountDigits(s, i, max) ==
    IF max = 0 \/ i > Len(s) \/ ~is_ascii_digit(s[i]) THEN 0
    ELSE 1 + CountDigits(s, i + 1, max - 1)

RECURSIVE NumberValue(_, _)
NumberValue(s, acc) ==
    IF s = <<>> THEN acc ELSE NumberValue(Tail(s), 10 * acc + (Code[Head(s)] - 48))

is_leap_year(y) == (y % 4 = 0 /\ y % 100 # 0) \/ y % 400 = 0

days_in_month(y, m) ==
    IF m = 2 THEN (IF is_leap_year(y) THEN 29 ELSE 28)
    ELSE IF m \in {4, 6, 9, 11} THEN 30 ELSE 31

\* NaiveDate::from_ymd_opt
from_ymd_opt(y, m, d) ==
    IF m >= 1 /\ m <= 12 /\ d >= 1 /\ d <= days_in_month(y, m)
    THEN Some(<<y, m, d>>) ELSE None

\* NaiveDate::parse_from_str(s, "%Y-%m-%d"): %Y is an optional sign and
\* digits (1 to 4 of them when there is no sign), %m and %d are 1 or 2
\* digits, "-" is literal, and nothing may follow the day.  Each scan
\* operator gets the position where its number starts and the count of its
\* digits.
ScanDay(s, y, m, ds, dn) ==
    IF dn >= 1 /\ ds + dn - 1 = Len(s)
    THEN from_ymd_opt(y, m, NumberValue(SubSeq(s, ds, ds + dn - 1), 0))
    ELSE None

ScanMonth(s, y, ms, mn) ==
    IF mn >= 1 /\ ms + mn <= Len(s) /\ s[ms + mn] = "-"
    THEN ScanDay(s, y, NumberValue(SubSeq(s, ms, ms + mn - 1), 0),
                 ms + mn + 1, CountDigits(s, ms + mn + 1, 2))
    ELSE None

ScanYear(s, ys, yn) ==
    IF yn >= 1 /\ ys + yn <= Len(s) /\ s[ys + yn] = "-"
    THEN ScanMonth(s,
                   IF starts_with(s, "-")
                   THEN 0 - NumberValue(SubSeq(s, ys, ys + yn - 1), 0)
                   ELSE NumberValue(SubSeq(s, ys, ys + yn - 1), 0),
                   ys + yn + 1, CountDigits(s, ys + yn + 1, 2))
    ELSE None

NaiveDate_parse_from_str(s) ==
    IF starts_with(s, "+") \/ starts_with(s, "-")
    THEN ScanYear(s, 2, CountDigits(s, 2, Len(s)))
    ELSE ScanYear(s, 1, CountDigits(s, 1, 4))

Pad2(n) == <<DigitChar(n \div 10), DigitChar(n % 10)>>

RECURSIVE Digits(_)
Digits(n) == IF n < 10 THEN <<DigitChar(n)>> ELSE Append(Digits(n \div 10), DigitChar(n % 10))

RECURSIVE ZeroPad(_, _)
ZeroPad(s, w) == IF Len(s) >= w THEN s ELSE ZeroPad(<<"0">> \o s, w)

\* NaiveDate::format("%Y-%m-%d"): the year is zero-padded to 4 digits and
\* carries a sign when it is outside 0..9999
format_date(date) ==
    LET y == date[1]
        year == IF y >= 0 /\ y <= 9999 THEN ZeroPad(Digits(y), 4)
                ELSE IF y < 0 THEN <<"-">> \o ZeroPad(Digits(0 - y), 4)
                ELSE <<"+">> \o ZeroPad(Digits(y), 4)
    IN  year \o <<"-">> \o Pad2(date[2]) \o <<"-">> \o Pad2(date[3])

\* Option::ok_or / Result::map_err: Ok of the value, or the given error
ok_or(opt, error) == IF IsSome(opt) THEN Ok(Unwrap(opt)) ELSE error

\* parser.rs: parse_date
parse_date(s) == ok_or(NaiveDate_parse_from_str(s), Err("InvalidDateFormat", s))

----------------------------------------------------------------------------
(* todo.rs: the Task Record *)

EmptyMap == <<>>

\* HashMap::insert
insert(map, key, value) ==
    [k \in DOMAIN map \cup {key} |-> IF k = key THEN value ELSE map[k]]

\* Todo::new
Todo_new(description) ==
    [completed |-> FALSE, priority |-> None, completion_date |-> None,
     creation_date |-> None, description |-> description,
     contexts |-> <<>>, projects |-> <<>>, tags |-> EmptyMap]

\* Vec::contains
vec_contains(v, x) == \E i \in 1..Len(v) : v[i] = x

\* Todo::has_context, Todo::has_project
has_context(t, context) == \E i \in 1..Len(t.contexts) : t.contexts[i] = context
has_project(t, project) == \E i \in 1..Len(t.projects) : t.projects[i] = project

\* Todo::with_priority, Todo::with_creation_date
with_priority(t, priority) == [t EXCEPT !.priority = Some(priority)]
with_creation_date(t, date) == [t EXCEPT !.creation_date = Some(date)]

\* Todo::add_context, Todo::add_project, Todo::add_tag
add_context_AlwaysPush(t, ctx) == [t EXCEPT !.contexts = Append(@, ctx)]

add_context(t, ctx) ==
    IF ~vec_contains(t.contexts, ctx)
    THEN [t EXCEPT !.contexts = Append(@, ctx)] ELSE t

add_project(t, proj) ==
    IF ~vec_contains(t.projects, proj)
    THEN [t EXCEPT !.projects = Append(@, proj)] ELSE t

add_tag(t, key, value) == [t EXCEPT !.tags = insert(@, key, value)]

\* Todo::complete (now: the current local date), Todo::uncomplete
complete_AlwaysStamp(t, now) ==
    [t EXCEPT !.completed = TRUE, !.completion_date = Some(now)]

complete(t, now) ==
    [t EXCEPT !.completed = TRUE,
              !.completion_date = IF t.completion_date = None THEN Some(now) ELSE @]

uncomplete(t) == [t EXCEPT !.completed = FALSE, !.completion_date = None]

\* the keys of a map in ascending order (tags.sort_by_key(|(k, _)| *k))
RECURSIVE SortedKeys(_)
SortedKeys(S) ==
    IF S = {} THEN <<>>
    ELSE LET min == CHOOSE k \in S : \A o \in S : o = k \/ StrLess(k, o)
         IN  <<min>> \o SortedKeys(S \ {min})

\* impl Display for Todo, the header written by the completed branch
HeaderCompleted_WithPriority(t) ==
    <<"x">>
    \o (IF IsSome(t.priority) THEN <<" ">> \o Priority_fmt(Unwrap(t.priority)) ELSE <<>>)
    \o (IF IsSome(t.completion_date)
        THEN <<" ">> \o format_date(Unwrap(t.completion_date)) ELSE <<>>)
    \o (IF IsSome(t.creation_date)
        THEN <<" ">> \o format_date(Unwrap(t.creation_date)) ELSE <<>>)
    \o <<" ">>

HeaderCompleted(t) ==
    <<"x">>
    \o (IF IsSome(t.completion_date)
        THEN <<" ">> \o format_date(Unwrap(t.completion_date)) ELSE <<>>)
    \o (IF IsSome(t.creation_date)
        THEN <<" ">> \o format_date(Unwrap(t.creation_date)) ELSE <<>>)
    \o <<" ">>

\* impl Display for Todo, the header written by the not-completed branch
HeaderIncomplete_DateFirst(t) ==
    (IF IsSome(t.creation_date)
     THEN format_date(Unwrap(t.creation_date)) \o <<" ">> ELSE <<>>)
    \o (IF IsSome(t.priority) THEN Priority_fmt(Unwrap(t.priority)) \o <<" ">> ELSE <<>>)

HeaderIncomplete(t) ==
    (IF IsSome(t.priority) THEN Priority_fmt(Unwrap(t.priority)) \o <<" ">> ELSE <<>>)
    \o (IF IsSome(t.creation_date)
        THEN format_date(Unwrap(t.creation_date)) \o <<" ">> ELSE <<>>)

\* impl Display for Todo: to_string()
to_string(t) ==
    LET keys == SortedKeys(DOMAIN t.tags)
    IN  (IF t.completed THEN HeaderCompleted(t) ELSE HeaderIncomplete(t))
        \o t.description
        \o Flatten([i \in 1..Len(t.projects) |-> <<" ", "+">> \o t.projects[i]])
        \o Flatten([i \in 1..Len(t.contexts) |-> <<" ", "@">> \o t.contexts[i]])
        \o Flatten([i \in 1..Len(keys) |-> <<" ">> \o keys[i] \o <<":">> \o t.tags[keys[i]]])

----------------------------------------------------------------------------
(* parser.rs: parse_todo *)

\* The parser's state is the record under construction and the parts not
\* yet consumed: peek() is the head of parts, next() drops it.
ParserState(t, parts) == [todo |-> t, parts |-> parts]

Peek(st, token) == st.parts # <<>> /\ Head(st.parts) = token

Advance(st, t) == [todo |-> t, parts |-> Tail(st.parts)]

\* parser.rs:16-19: the completion marker
CompletionMarker(st) ==
    IF Peek(st, <<"x">>) THEN Advance(st, [st.todo EXCEPT !.completed = TRUE]) ELSE st

\* parser.rs:21-26: the completion date, looked for only after the marker
CompletionDate(st) ==
    IF st.todo.completed /\ st.parts # <<>> /\ parse_date(Head(st.parts)).ok
    THEN Advance(st, [st.todo EXCEPT !.completion_date = parse_date(Head(st.parts)).val])
    ELSE st

\* parser.rs:30-42: the priority, looked for only when there is no marker
PrioritySlot_AlsoWhenCompleted(st) ==
    IF /\ st.parts # <<>>
       /\ starts_with(Head(st.parts), "(") /\ ends_with(Head(st.parts), ")")
       /\ Len(Head(st.parts)) = 3
       /\ Priority_from_str(Head(st.parts)).ok
    THEN Advance(st, [st.todo EXCEPT !.priority = Priority_from_str(Head(st.parts)).val])
    ELSE st

PrioritySlot(st) ==
    IF /\ ~st.todo.completed /\ st.parts # <<>>
       /\ starts_with(Head(st.parts), "(") /\ ends_with(Head(st.parts), ")")
       /\ Len(Head(st.parts)) = 3
       /\ Priority_from_str(Head(st.parts)).ok
    THEN Advance(st, [st.todo EXCEPT !.priority = Priority_from_str(Head(st.parts)).val])
    ELSE st

\* parser.rs:45-50: the creation date
CreationDate(st) ==
    IF st.parts # <<>> /\ parse_date(Head(st.parts)).ok
    THEN Advance(st, [st.todo EXCEPT !.creation_date = parse_date(Head(st.parts)).val])
    ELSE st

\* the test of the tag branch (parser.rs:62-69), on the halves of the part
IsTag_AllowEmptyValue(kv) ==
    /\ IsSome(kv)
    /\ Unwrap(kv)[1] # <<>>
    /\ ~contains_whitespace(Unwrap(kv)[1]) /\ ~contains_whitespace(Unwrap(kv)[2])

IsTag(kv) ==
    /\ IsSome(kv)
    /\ Unwrap(kv)[1] # <<>> /\ Unwrap(kv)[2] # <<>>
    /\ ~contains_whitespace(Unwrap(kv)[1]) /\ ~contains_whitespace(Unwrap(kv)[2])

\* the loop over the remaining parts (parser.rs:55-80); descr is description_parts
RECURSIVE Classify(_, _, _)
Classify(parts, t, descr) ==
    IF parts = <<>> THEN [todo |-> t, description_parts |-> descr]
    ELSE IF starts_with(Head(parts), "@") /\ Len(Head(parts)) > 1
    THEN Classify(Tail(parts), [t EXCEPT !.contexts = Append(@, Tail(Head(parts)))], descr)
    ELSE IF starts_with(Head(parts), "+") /\ Len(Head(parts)) > 1
    THEN Classify(Tail(parts), [t EXCEPT !.projects = Append(@, Tail(Head(parts)))], descr)
    ELSE IF contains(Head(parts), ":") /\ IsTag(split_once(Head(parts), ":"))
    THEN Classify(Tail(parts),
                  [t EXCEPT !.tags = insert(@, Unwrap(split_once(Head(parts), ":"))[1],
                                               Unwrap(split_once(Head(parts), ":"))[2])],
                  descr)
    ELSE Classify(Tail(parts), t, Append(descr, Head(parts)))

\* parser.rs:82: the description is the description parts joined by " "
SetDescription(body) ==
    [body.todo EXCEPT !.description = join(body.description_parts, <<" ">>)]

\* parser.rs:84-88: the final validation
Validate_DescriptionOnly(t) ==
    IF t.description = <<>>
    THEN Err("ParseError", "task content is empty")
    ELSE Ok(t)

Validate(t) ==
    IF t.description = <<>> /\ t.contexts = <<>> /\ t.projects = <<>>
    THEN Err("ParseError", "task content is empty")
    ELSE Ok(t)

\* parser.rs:53-80: the remaining parts are classified
Remaining(st) == Classify(st.parts, st.todo, <<>>)

\* parser.rs:12-88, on the parts of a line that is not blank
ParseParts(parts) ==
    Validate(SetDescription(Remaining(
        CreationDate(PrioritySlot(CompletionDate(CompletionMarker(
            ParserState(Todo_new(<<>>), parts))))))))

parse_todo(raw) ==
    IF trim(raw) = <<>> THEN Err("ParseError", "empty line")
    ELSE ParseParts(split_whitespace(trim(raw)))

----
(* Inputs of the parse / render scenario *)

TokX == <<"x">>
TokPrioA == <<"(", "A", ")">>
TokPrioLower == <<"(", "a", ")">>
TokDate1 == <<"2", "0", "2", "4", "-", "1", "1", "-", "0", "3">>
TokDate2 == <<"2", "0", "2", "4", "-", "1", "-", "3">>
TokBadDate == <<"2", "0", "2", "3", "-", "0", "2", "-", "2", "9">>
TokWord == <<"M", "o", "m">>
TokCtx == <<"@", "c">>
TokProj == <<"+", "p">>
TokTag1 == <<"k", ":", "v">>
TokTag2 == <<"k", ":", "w">>
TokAt == <<"@">>
TokNoValue == <<"k", ":">>
TokMail == <<"a", "@", "b">>
TokPlus == <<"+">>
TokNoKey == <<":", "v">>

TokenPool ==
    {TokX, TokPrioA, TokPrioLower, TokDate1, TokDate2, TokBadDate, TokWord,
     TokCtx, TokProj, TokTag1, TokTag2, TokAt, TokNoValue, TokMail,
     TokPlus, TokNoKey}

\* the sequences of at most n elements of S
SeqsUpTo(S, n) == UNION {[1..k -> S] : k \in 0..n}

\* lines from the tests of parser.rs, longer than MaxTokens
TestLines ==
    { join(<<TokX, TokDate1, TokDate2, <<"C", "a", "l", "l">>, TokWord>>, <<" ">>),
      join(<<TokPrioA, TokDate1, <<"C", "a", "l", "l">>, TokWord, TokProj, TokCtx, TokTag1>>,
           <<" ">>) }

\* the input lines: tokens separated by one space, or by more whitespace
\* and with whitespace around
Lines ==
    {join(ts, <<" ">>) : ts \in SeqsUpTo(TokenPool, MaxTokens)}
    \cup {<<" ">> \o join(ts, <<"\t", " ">>) \o <<" ">> : ts \in SeqsUpTo(TokenPool, MaxTokens)}
    \cup TestLines

Date1 == <<2024, 11, 3>>
Date2 == <<2024, 1, 3>>

Descriptions ==
    { <<>>,
      TokWord,
      join(<<<<"C", "a", "l", "l">>, TokWord>>, <<" ">>),
      join(<<<<"C", "a", "l", "l">>, TokWord>>, <<" ", " ">>),
      join(<<TokX, TokWord>>, <<" ">>),
      join(<<TokPrioA, TokWord>>, <<" ">>),
      join(<<TokDate1, TokWord>>, <<" ">>),
      join(<<TokWord, TokCtx>>, <<" ">>),
      join(<<TokWord, TokPrioA>>, <<" ">>) }

ContextPool == {<<"c">>, <<"d">>}
ProjectPool == {<<"p">>, <<>>}
TagKeys == {<<"k">>, <<"j">>}
TagValues == {<<"v">>}

Maps(K, V) == UNION {[D -> V] : D \in SUBSET K}

\* the Task Records a caller can build (all fields of Todo are pub)
Records ==
    [completed : BOOLEAN,
     priority : {None, Some("A")},
     completion_date : {None, Some(Date1)},
     creation_date : {None, Some(Date2)},
     description : Descriptions,
     contexts : SeqsUpTo(ContextPool, MaxLabels),
     projects : SeqsUpTo(ProjectPool, MaxLabels),
     tags : Maps(TagKeys, TagValues)]

----------------------------------------------------------------------------
(* The parse / render scenario: a line is parsed, the record (parsed or     *)
(* built by the caller) is rendered, and the rendered line is parsed again. *)

TodoVarsIdle == todos = <<>> /\ last = <<>> /\ ret = NoResult /\ pstr = <<>>

InitLine ==
    /\ pc = "line"
    /\ text \in Lines
    /\ todo = None
    /\ parsed = NoResult
    /\ reparsed = NoResult
    /\ TodoVarsIdle

InitRecord ==
    /\ pc = "record"
    /\ text = <<>>
    /\ todo \in {Some(t) : t \in Records}
    /\ parsed = NoResult
    /\ reparsed = NoResult
    /\ TodoVarsIdle

Init == InitLine \/ InitRecord

\* line.parse::<Todo>() / parse_todo(line)
Parse ==
    /\ pc = "line"
    /\ parsed' = parse_todo(text)
    /\ todo' = parsed'.val
    /\ pc' = IF parsed'.ok THEN "parsed" ELSE "failed"
    /\ UNCHANGED <<text, reparsed, todos, last, ret, pstr>>

\* todo.to_string()
Display ==
    /\ pc \in {"parsed", "record"}
    /\ text' = to_string(Unwrap(todo))
    /\ pc' = "rendered"
    /\ UNCHANGED <<todo, parsed, reparsed, todos, last, ret, pstr>>

\* parse_todo(todo.to_string())
Reparse ==
    /\ pc = "rendered"
    /\ reparsed' = parse_todo(text)
    /\ pc' = "reparsed"
    /\ UNCHANGED <<text, todo, parsed, todos, last, ret, pstr>>

Next == Parse \/ Display \/ Reparse

Spec == Init /\ [][Next]_vars

\* the record that was rendered came from the caller / from parse_todo
FromCaller == parsed = NoResult
FromParser == parsed.ok

----------------------------------------------------------------------------
(* Shapes of tokens, as the Todo.txt grammar states them *)

PriorityShaped(w) ==
    Len(w) = 3 /\ w[1] = "(" /\ w[3] = ")" /\ Code[w[2]] \in 65..90

DateShaped(w) == IsSome(NaiveDate_parse_from_str(w))

ContextShaped(w) == Len(w) > 1 /\ w[1] = "@"

ProjectShaped(w) == Len(w) > 1 /\ w[1] = "+"

TagShaped(w) ==
    \E i \in 2..(Len(w) - 1) : w[i] = ":" /\ \A j \in 1..(i - 1) : w[j] # ":"

PlainWord(w) == ~ContextShaped(w) /\ ~ProjectShaped(w) /\ ~TagShaped(w)

Label(s) == s # <<>> /\ ~contains_whitespace(s)

\* a record in the form the line grammar can express: the description is
\* plain words separated by single spaces, the first of them not a header
\* token; there is a description, a context or a project; labels, tag keys
\* and tag values are non-empty and free of whitespace, and a tag key has
\* no ":" and no leading "@" or "+"
WellFormed(t) ==
    LET words == split_whitespace(t.description)
    IN  /\ t.description = join(words, <<" ">>)
        /\ \A i \in 1..Len(words) : PlainWord(words[i])
        /\ words # <<>> =>
              /\ words[1] # <<"x">>
              /\ ~PriorityShaped(words[1])
              /\ ~DateShaped(words[1])
        /\ words # <<>> \/ t.contexts # <<>> \/ t.projects # <<>>
        /\ \A i \in 1..Len(t.contexts) : Label(t.contexts[i])
        /\ \A i \in 1..Len(t.projects) : Label(t.projects[i])
        /\ \A k \in DOMAIN t.tags :
              /\ Label(k) /\ Label(t.tags[k])
              /\ ~contains(k, ":") /\ k[1] \notin {"@", "+"}

SameBody(a, b) ==
    /\ a.description = b.description
    /\ a.contexts = b.contexts
    /\ a.projects = b.projects
    /\ a.tags = b.tags

----------------------------------------------------------------------------
(* C1 *)

----------------------------------------------------------------------------
(* C2 *)

\* C2 as stated: when parse_todo succeeds on a line with record t,
\* parse_todo(t.to_string()) succeeds and returns a record equal to t.
C2_StableOnParserOutput ==
    (pc = "reparsed" /\ FromParser) =>
        reparsed.ok /\ Unwrap(reparsed.val) = Unwrap(parsed.val)

----------------------------------------------------------------------------
(* C3 *)

\* C3 as stated, on records with a well-formed body: for every Task Record
\* t with completed == true, parse_todo(t.to_string()) is completed and has
\* the completion date and the creation date of t.
C3_CompletedDatesRoundTrip ==
    (pc = "reparsed" /\ FromCaller /\ Unwrap(todo).completed /\ WellFormed(Unwrap(todo))) =>
        /\ reparsed.ok
        /\ Unwrap(reparsed.val).completed
        /\ Unwrap(reparsed.val).completion_date = Unwrap(todo).completion_date
        /\ Unwrap(reparsed.val).creation_date = Unwrap(todo).creation_date

----------------------------------------------------------------------------
(* C4 *)

PriorityTokens(s) == SelectSeq(split_whitespace(s), PriorityShaped)

\* C4: the line rendered for a completed record holds no "(X)" token for
\* its priority, set or not: the "(X)" tokens of the line are those of the
\* description, and the line starts with the "x" marker.
C4_NoPriorityWhenCompleted ==
    (pc = "rendered" /\ Unwrap(todo).completed) =>
        /\ PriorityTokens(text) = PriorityTokens(Unwrap(todo).description)
        /\ split_whitespace(text)[1] = <<"x">>

\* a completed record with a priority was rendered, and the line has no
\* "(X)" token
C4_Witness ==
    /\ pc = "rendered"
    /\ Unwrap(todo).completed
    /\ IsSome(Unwrap(todo).priority)
    /\ PriorityTokens(text) = <<>>

----------------------------------------------------------------------------
(* C5 *)

IsBlank(s) == \A i \in 1..Len(s) : is_whitespace(s[i])

\* the number of header tokens of a line: "x" and a date, or a priority,
\* and then a date
HeaderLen(toks) ==
    LET dateAt(i) == i <= Len(toks) /\ DateShaped(toks[i])
        prioAt(i) == i <= Len(toks) /\ PriorityShaped(toks[i])
        a == IF toks[1] = <<"x">> THEN 1 ELSE 0
        b == IF a = 1 THEN (IF dateAt(2) THEN 1 ELSE 0)
             ELSE (IF prioAt(1) THEN 1 ELSE 0)
        c == IF dateAt(a + b + 1) THEN 1 ELSE 0
    IN  a + b + c

\* no token after the header is a description word, a context or a project
NoContent(s) ==
    LET toks == split_whitespace(s)
    IN  \A i \in (HeaderLen(toks) + 1)..Len(toks) :
            TagShaped(toks[i]) /\ ~ContextShaped(toks[i]) /\ ~ProjectShaped(toks[i])

\* C5: parse_todo(line) fails exactly when the line is blank or no token
\* after the header is a description word, context or project; every
\* failure is a ParseError.
C5_FailsExactlyWhenEmpty ==
    (pc \in {"parsed", "failed"}) =>
        /\ ~parsed.ok <=> (IsBlank(text) \/ NoContent(text))
        /\ ~parsed.ok => parsed.err[1] = "ParseError"
        /\ parsed.ok <=> pc = "parsed"

\* parse_todo failed with ParseError on a line that is "x", a date and a tag
C5_Witness ==
    /\ pc = "failed"
    /\ ~IsBlank(text)
    /\ Len(split_whitespace(text)) = 3
    /\ split_whitespace(text)[1] = <<"x">>
    /\ split_whitespace(text)[2] = TokDate1
    /\ TagShaped(split_whitespace(text)[3])
    /\ parsed.err[1] = "ParseError"

----------------------------------------------------------------------------
(* list.rs: TodoList.  An index is 0-based as in the code: the task at      *)
(* index i is todos[i + 1].  A Vec<&Todo> returned by a query is the        *)
(* sequence of the indices of the tasks it refers to.                       *)

Unit == <<>>

\* list.rs:36-41: push the record of a line that parsed
PushParsed(acc, result) == IF result.ok THEN Append(acc, Unwrap(result.val)) ELSE acc

\* TodoList::from_string, the loop over content.lines() (list.rs:28-42)
RECURSIVE LoadLines(_, _)
LoadLines(ls, acc) ==
    IF ls = <<>> THEN acc
    ELSE IF trim(Head(ls)) = <<>> THEN LoadLines(Tail(ls), acc)
    ELSE LoadLines(Tail(ls), PushParsed(acc, parse_todo(trim(Head(ls)))))

\* from_string as it would be with line.parse::<Todo>()?
from_string_FailOnBadLine(content) ==
    IF \E i \in 1..Len(lines(content)) :
          trim(lines(content)[i]) # <<>> /\ ~parse_todo(lines(content)[i]).ok
    THEN Err("ParseError", "bad line")
    ELSE Ok(LoadLines(lines(content), <<>>))

\* TodoList::from_string
from_string(content) == Ok(LoadLines(lines(content), <<>>))

\* TodoList::add
add(ts, t) == Append(ts, t)

\* Vec::remove(index), for index < len
vec_remove(ts, index) == SubSeq(ts, 1, index) \o SubSeq(ts, index + 2, Len(ts))

\* TodoList::remove as it would be with Vec::swap_remove
remove_SwapRemove(ts, index) ==
    IF index < Len(ts)
    THEN [todos |-> IF index + 1 = Len(ts) THEN SubSeq(ts, 1, index)
                    ELSE [SubSeq(ts, 1, Len(ts) - 1) EXCEPT ![index + 1] = ts[Len(ts)]],
          ret |-> Ok(ts[index + 1])]
    ELSE [todos |-> ts, ret |-> Err("IndexOutOfBounds", index)]

\* TodoList::remove: the list after the call and what the call returns
remove(ts, index) ==
    IF index < Len(ts)
    THEN [todos |-> vec_remove(ts, index), ret |-> Ok(ts[index + 1])]
    ELSE [todos |-> ts, ret |-> Err("IndexOutOfBounds", index)]

\* the tasks of a list, the arguments a filter predicate is called with
Tasks(ts) == {ts[i] : i \in 1..Len(ts)}

\* TodoList::filter: the tasks for which the predicate holds, in list
\* order; the predicate is a function from the tasks of the list to BOOLEAN
filter(ts, predicate) ==
    LET F[i \in 0..Len(ts)] ==
            IF i = 0 THEN <<>>
            ELSE IF predicate[ts[i]] THEN Append(F[i - 1], i - 1) ELSE F[i - 1]
    IN  F[Len(ts)]

\* TodoList::incomplete, completed, with_priority, with_project, with_context
incomplete(ts) == filter(ts, [t \in Tasks(ts) |-> ~t.completed])
completed(ts) == filter(ts, [t \in Tasks(ts) |-> t.completed])
list_with_priority(ts, priority) ==
    filter(ts, [t \in Tasks(ts) |-> t.priority = Some(priority)])

with_project_Prefix(ts, project) ==
    filter(ts, [t \in Tasks(ts) |->
                  \E i \in 1..Len(t.projects) :
                      /\ Len(t.projects[i]) >= Len(project)
                      /\ SubSeq(t.projects[i], 1, Len(project)) = project])

with_project(ts, project) == filter(ts, [t \in Tasks(ts) |-> has_project(t, project)])
with_context(ts, context) == filter(ts, [t \in Tasks(ts) |-> has_context(t, context)])

\* the comparison of sort_by_priority (list.rs:153-158)
cmp_priority_NoneFirst(a, b) ==
    IF IsSome(a.priority) /\ IsSome(b.priority)
    THEN (IF Code[Unwrap(a.priority)] < Code[Unwrap(b.priority)] THEN "Less"
          ELSE IF Code[Unwrap(a.priority)] > Code[Unwrap(b.priority)] THEN "Greater"
          ELSE "Equal")
    ELSE IF IsSome(a.priority) THEN "Greater"
    ELSE IF IsSome(b.priority) THEN "Less"
    ELSE "Equal"

cmp_priority(a, b) ==
    IF IsSome(a.priority) /\ IsSome(b.priority)
    THEN (IF Code[Unwrap(a.priority)] < Code[Unwrap(b.priority)] THEN "Less"
          ELSE IF Code[Unwrap(a.priority)] > Code[Unwrap(b.priority)] THEN "Greater"
          ELSE "Equal")
    ELSE IF IsSome(a.priority) THEN "Less"
    ELSE IF IsSome(b.priority) THEN "Greater"
    ELSE "Equal"

\* slice::sort_by is a stable sort: x goes behind every element that does
\* not compare Greater than it
RECURSIVE InsertByPriority(_, _)
InsertByPriority(sorted, x) ==
    IF sorted = <<>> THEN <<x>>
    ELSE IF cmp_priority(Head(sorted), x) = "Greater" THEN <<x>> \o sorted
    ELSE <<Head(sorted)>> \o InsertByPriority(Tail(sorted), x)

\* TodoList::sort_by_priority
RECURSIVE SortPrefix(_, _)
SortPrefix(ts, n) ==
    IF n = 0 THEN <<>> ELSE InsertByPriority(SortPrefix(ts, n - 1), ts[n])

sort_by_priority(ts) == SortPrefix(ts, Len(ts))

----------------------------------------------------------------------------
(* The TodoList scenario *)

Name1 == <<"a">>
Name2 == <<"b">>

SampleTodos ==
    { Todo_new(Name1),
      Todo_new(Name2),
      with_priority(Todo_new(Name1), "A"),
      with_priority(Todo_new(Name2), "A"),
      with_priority(Todo_new(Name1), "B"),
      complete(with_priority(Todo_new(Name2), "C"), Date1),
      add_project(add_context(Todo_new(Name1), <<"c">>), <<"p">>),
      add_project(add_context(complete(Todo_new(Name2), Date1), <<"C">>), <<"p", "p">>) }

QueryPriorities == {"A", "C", "Z"}
QueryLabels == {<<"c">>, <<"C">>, <<"p">>}
FilterPredicates == {"has_tag_or_context", "description_is_a"}

Holds(name, t) ==
    IF name = "description_is_a" THEN t.description = Name1
    ELSE t.contexts # <<>> \/ DOMAIN t.tags # {}

LoadLinePool ==
    { <<>>,
      <<" ", "\t">>,
      TokTag1,
      join(<<TokPrioA, TokWord>>, <<" ">>),
      <<" ">> \o join(<<TokX, TokDate1, TokWord, TokCtx>>, <<" ">>),
      join(<<TokWord, TokProj>>, <<" ">>) }

Contents ==
    {join(ls, <<"\n">>) : ls \in SeqsUpTo(LoadLinePool, MaxLines)}
    \cup {join(ls, <<"\r", "\n">>) \o <<"\n">> : ls \in SeqsUpTo(LoadLinePool, MaxLines)}

ListVarsIdle ==
    /\ text = <<>> /\ todo = None /\ parsed = NoResult /\ reparsed = NoResult
    /\ pstr = <<>>

Call(op, arg) == [op |-> op, arg |-> arg, before |-> todos]

\* TodoList::new()
InitList ==
    /\ pc = "list"
    /\ todos = <<>>
    /\ last = [op |-> "new", arg |-> Unit, before |-> <<>>]
    /\ ret = Ok(Unit)
    /\ ListVarsIdle

ListFrame == UNCHANGED <<pc, text, todo, parsed, reparsed, pstr>>

\* TodoList::from_string(content): the list is constructed from a text
Load(content) ==
    /\ pc = "list"
    /\ last.op = "new"
    /\ last' = Call("from_string", content)
    /\ ret' = [from_string(content) EXCEPT !.val = IF @ = <<>> THEN @ ELSE <<Unit>>]
    /\ todos' = IF ret'.ok THEN Unwrap(from_string(content).val) ELSE todos
    /\ ListFrame

Add(t) ==
    /\ pc = "list"
    /\ Len(todos) < MaxLen
    /\ last' = Call("add", t)
    /\ todos' = add(todos, t)
    /\ ret' = Ok(Unit)
    /\ ListFrame

Remove(index) ==
    /\ pc = "list"
    /\ last' = Call("remove", index)
    /\ todos' = remove(todos, index).todos
    /\ ret' = remove(todos, index).ret
    /\ ListFrame

SortByPriority ==
    /\ pc = "list"
    /\ last' = Call("sort_by_priority", Unit)
    /\ todos' = sort_by_priority(todos)
    /\ ret' = Ok(Unit)
    /\ ListFrame

Query(op, arg, result) ==
    /\ pc = "list"
    /\ last' = Call(op, arg)
    /\ ret' = Ok(result)
    /\ UNCHANGED todos
    /\ ListFrame

Filter(name) ==
    Query("filter", name, filter(todos, [t \in Tasks(todos) |-> Holds(name, t)]))
Incomplete == Query("incomplete", Unit, incomplete(todos))
Completed == Query("completed", Unit, completed(todos))
WithPriority(p) == Query("with_priority", p, list_with_priority(todos, p))
WithProject(p) == Query("with_project", p, with_project(todos, p))
WithContext(c) == Query("with_context", c, with_context(todos, c))

NextList ==
    \/ \E content \in Contents : Load(content)
    \/ \E t \in SampleTodos : Add(t)
    \/ \E index \in 0..(MaxLen + 1) : Remove(index)
    \/ SortByPriority
    \/ \E name \in FilterPredicates : Filter(name)
    \/ Incomplete
    \/ Completed
    \/ \E p \in QueryPriorities : WithPriority(p)
    \/ \E p \in QueryLabels : WithProject(p)
    \/ \E c \in QueryLabels : WithContext(c)

SpecList == InitList /\ [][NextList]_vars

----------------------------------------------------------------------------
(* C6 *)

\* the records of the lines of ls that are not blank and parse, in order
RECURSIVE ParsedRecords(_)
ParsedRecords(ls) ==
    IF ls = <<>> THEN <<>>
    ELSE (IF ~IsBlank(Head(ls)) /\ parse_todo(Head(ls)).ok
          THEN <<Unwrap(parse_todo(Head(ls)).val)>> ELSE <<>>)
         \o ParsedRecords(Tail(ls))

\* C6: from_string never fails, and the list it returns holds, in line
\* order, exactly the records of the non-blank lines that parse.
C6_FromStringSkipsBadLines ==
    last.op = "from_string" =>
        /\ ret.ok
        /\ todos = ParsedRecords(lines(last.arg))

\* from_string returned the two records around a line that does not parse
C6_Witness ==
    /\ last.op = "from_string"
    /\ Len(lines(last.arg)) = 3
    /\ ~IsBlank(lines(last.arg)[2]) /\ ~parse_todo(lines(last.arg)[2]).ok
    /\ ret.ok
    /\ Len(todos) = 2

----------------------------------------------------------------------------
(* C7 *)

\* C7: remove(i) with i >= len fails with IndexOutOfBounds(i) and leaves
\* the list unchanged; with i < len it returns the record at index i, the
\* records before i stay and the records after i move down by one.
C7_Remove ==
    last.op = "remove" =>
        LET i == last.arg
            before == last.before
        IN  IF i >= Len(before)
            THEN ret = Err("IndexOutOfBounds", i) /\ todos = before
            ELSE /\ ret = Ok(before[i + 1])
                 /\ Len(todos) = Len(before) - 1
                 /\ \A j \in 0..(i - 1) : todos[j + 1] = before[j + 1]
                 /\ \A j \in i..(Len(todos) - 1) : todos[j + 1] = before[j + 2]

\* a record was removed from the front of a list of three different records
C7_Witness ==
    /\ last.op = "remove"
    /\ last.arg = 0
    /\ Len(last.before) = 3
    /\ Cardinality({last.before[j] : j \in 1..3}) = 3
    /\ ret.ok

\* a removal beyond the end of a non-empty list failed
C7_WitnessOutOfBounds ==
    /\ last.op = "remove"
    /\ last.before # <<>>
    /\ last.arg = Len(last.before)
    /\ ~ret.ok

----------------------------------------------------------------------------
(* C8 *)

Count(ts, t) == Cardinality({i \in 1..Len(ts) : ts[i] = t})

WithPriorityOption(ts, p) == LET P(t) == t.priority = p IN SelectSeq(ts, P)

\* C8: sort_by_priority leaves a permutation of the list in which no task
\* without priority precedes a task with one, the priorities ascend, and
\* the tasks of one priority (or of none) are in their previous order.
C8_SortByPriority ==
    last.op = "sort_by_priority" =>
        /\ Len(todos) = Len(last.before)
        /\ \A i \in 1..Len(todos) : Count(todos, todos[i]) = Count(last.before, todos[i])
        /\ \A i, j \in 1..Len(todos) :
              i < j =>
                 /\ IsSome(todos[j].priority) => IsSome(todos[i].priority)
                 /\ IsSome(todos[j].priority) =>
                       Code[Unwrap(todos[i].priority)] <= Code[Unwrap(todos[j].priority)]
        /\ \A p \in {None} \cup {Some(c) : c \in {"A", "B", "C"}} :
              WithPriorityOption(todos, p) = WithPriorityOption(last.before, p)

\* a list of three was sorted in which a task without priority stood before
\* two different tasks of one priority
C8_Witness ==
    /\ last.op = "sort_by_priority"
    /\ Len(last.before) = 3
    /\ last.before[1].priority = None
    /\ IsSome(last.before[2].priority)
    /\ last.before[2].priority = last.before[3].priority
    /\ last.before[2] # last.before[3]
    /\ todos = <<last.before[2], last.before[3], last.before[1]>>

----------------------------------------------------------------------------
(* C9 *)

IsQuery == last.op \in {"filter", "incomplete", "completed", "with_priority",
                        "with_project", "with_context"}

\* the condition of the last query on a task
Condition(t) ==
    IF last.op = "filter" THEN Holds(last.arg, t)
    ELSE IF last.op = "incomplete" THEN t.completed = FALSE
    ELSE IF last.op = "completed" THEN t.completed = TRUE
    ELSE IF last.op = "with_priority" THEN t.priority = <<last.arg>>
    ELSE IF last.op = "with_project" THEN last.arg \in {t.projects[k] : k \in 1..Len(t.projects)}
    ELSE last.arg \in {t.contexts[k] : k \in 1..Len(t.contexts)}

Indices(r) == {r[k] : k \in 1..Len(r)}

\* C9: a query leaves the list unchanged and returns the tasks that satisfy
\* its condition, each once and in list order; completed() and incomplete()
\* partition the list.
C9_Queries ==
    /\ IsQuery =>
          LET r == Unwrap(ret.val)
          IN  /\ todos = last.before
              /\ \A k \in 1..(Len(r) - 1) : r[k] < r[k + 1]
              /\ Indices(r) = {i \in 0..(Len(todos) - 1) : Condition(todos[i + 1])}
    /\ Indices(completed(todos)) \cap Indices(incomplete(todos)) = {}
    /\ Indices(completed(todos)) \cup Indices(incomplete(todos)) = 0..(Len(todos) - 1)

\* with_project("p") selected some tasks of a list and left out a task
\* whose project only starts with "p"
C9_Witness ==
    /\ last.op = "with_project"
    /\ last.arg = <<"p">>
    /\ Len(Unwrap(ret.val)) >= 1
    /\ \E i \in 1..Len(todos) :
          /\ (i - 1) \notin Indices(Unwrap(ret.val))
          /\ todos[i].projects = << <<"p", "p">> >>

\* with_context("c") left out a task whose context is "C"
C9_WitnessCase ==
    /\ last.op = "with_context"
    /\ last.arg = <<"c">>
    /\ Len(Unwrap(ret.val)) >= 1
    /\ \E i \in 1..Len(todos) :
          /\ (i - 1) \notin Indices(Unwrap(ret.val))
          /\ todos[i].contexts = << <<"C">> >>

----------------------------------------------------------------------------
(* The Priority scenario: a character goes through Priority::new and       *)
(* Display, or a string is given, and the string goes through from_str.    *)

PriorityChars == {"(", ")", "A", "Z", "@", "[", "a", "1"}

PriorityStrings == SeqsUpTo(PriorityChars, MaxPLen)

PriorityVarsIdle ==
    /\ text = <<>> /\ todo = None /\ parsed = NoResult /\ reparsed = NoResult
    /\ todos = <<>>

InitPriority ==
    /\ \/ pc = "char" /\ pstr \in {<<c>> : c \in DOMAIN Code}
       \/ pc = "string" /\ pstr \in PriorityStrings
    /\ last = <<>>
    /\ ret = NoResult
    /\ PriorityVarsIdle

PriorityFrame == UNCHANGED <<text, todo, parsed, reparsed, todos>>

\* Priority::new(c)
PriorityNew ==
    /\ pc = "char"
    /\ ret' = [ok |-> IsSome(Priority_new(pstr[1])), val |-> Priority_new(pstr[1]), err |-> <<>>]
    /\ pc' = "new"
    /\ UNCHANGED <<pstr, last>>
    /\ PriorityFrame

\* priority.to_string()
PriorityDisplay ==
    /\ pc = "new"
    /\ ret.ok
    /\ pstr' = Priority_fmt(Unwrap(ret.val))
    /\ last' = ret.val
    /\ pc' = "string"
    /\ UNCHANGED ret
    /\ PriorityFrame

\* s.parse::<Priority>()
PriorityFromStr ==
    /\ pc = "string"
    /\ ret' = Priority_from_str(pstr)
    /\ pc' = "from_str"
    /\ UNCHANGED <<pstr, last>>
    /\ PriorityFrame

NextPriority == PriorityNew \/ PriorityDisplay \/ PriorityFromStr

SpecPriority == InitPriority /\ [][NextPriority]_vars

----------------------------------------------------------------------------
(* C10 *)

UppercaseLetters == {c \in DOMAIN Code : Code[c] \in 65..90}

\* C10: from_str accepts exactly the strings "(X)" with X in A-Z and
\* returns the priority X; every other string fails with InvalidPriority;
\* the text of a priority p parses back to p; Priority::new accepts
\* exactly A-Z.
C10_PriorityFromStr ==
    /\ pc = "from_str" =>
          /\ ret.ok <=> pstr \in {<<"(", c, ")">> : c \in UppercaseLetters}
          /\ ret.ok => ret.val = <<pstr[2]>>
          /\ ~ret.ok => ret.err[1] = "InvalidPriority"
          /\ last # <<>> => ret.ok /\ ret.val = last
    /\ pc = "new" => (ret.ok <=> pstr[1] \in UppercaseLetters)

\* the text of the priority Z was parsed back
C10_Witness ==
    /\ pc = "from_str"
    /\ last = <<"Z">>
    /\ pstr = <<"(", "Z", ")">>
    /\ ret.ok

\* a string of three characters in parentheses was rejected
C10_WitnessRejected ==
    /\ pc = "from_str"
    /\ pstr = <<"(", "a", ")">>
    /\ ~ret.ok

----------------------------------------------------------------------------
(* C11 *)

\* the date a token stands for, if it is a valid date
DateOf(toks, i) ==
    IF i <= Len(toks) /\ DateShaped(toks[i])
    THEN NaiveDate_parse_from_str(toks[i]) ELSE None

\* the index of the token in the creation date slot: behind "x" and the
\* completion date, or behind the priority
CreationSlot(toks) ==
    IF toks[1] = <<"x">> THEN (IF DateOf(toks, 2) # None THEN 3 ELSE 2)
    ELSE (IF PriorityShaped(toks[1]) THEN 2 ELSE 1)

\* the tokens of the record: the words of the description, the contexts,
\* the projects and, per tag token of the line, one
BodyTokenCount(t, toks) ==
    Len(split_whitespace(t.description)) + Len(t.contexts) + Len(t.projects)
    + Cardinality({i \in 1..Len(toks) :
                     TagShaped(toks[i]) /\ ~ContextShaped(toks[i]) /\ ~ProjectShaped(toks[i])
                     /\ i >= CreationSlot(toks)
                     /\ ~(i = CreationSlot(toks) /\ DateOf(toks, i) # None)})

\* C11: the record returned for a line is completed iff the first token is
\* "x"; then the second token is the completion date iff it is a valid
\* date and there is no priority; otherwise there is no completion date and
\* the first token is the priority iff it is "(X)" with X in A-Z; the next
\* token is the creation date iff it is a valid date; exactly these tokens
\* are consumed by the header.
C11_HeaderOrder ==
    pc = "parsed" =>
        LET toks == split_whitespace(text)
            t == Unwrap(parsed.val)
        IN  /\ t.completed <=> toks[1] = <<"x">>
            /\ t.completed =>
                  /\ t.priority = None
                  /\ t.completion_date = DateOf(toks, 2)
            /\ ~t.completed =>
                  /\ t.completion_date = None
                  /\ t.priority = IF PriorityShaped(toks[1]) THEN Some(toks[1][2]) ELSE None
            /\ t.creation_date = DateOf(toks, CreationSlot(toks))
            /\ BodyTokenCount(t, toks)
                 = Len(toks) - (CreationSlot(toks) - 1)
                   - (IF DateOf(toks, CreationSlot(toks)) # None THEN 1 ELSE 0)

\* "x 2024-11-03 2024-1-3 Call Mom" was parsed: completion date 2024-11-03,
\* creation date 2024-01-03, description "Call Mom"
C11_Witness ==
    /\ pc = "parsed"
    /\ split_whitespace(text) = <<TokX, TokDate1, TokDate2, <<"C", "a", "l", "l">>, TokWord>>
    /\ Unwrap(parsed.val).completed
    /\ Unwrap(parsed.val).completion_date = Some(Date1)
    /\ Unwrap(parsed.val).creation_date = Some(Date2)
    /\ Unwrap(parsed.val).description = <<"C", "a", "l", "l", " ", "M", "o", "m">>

\* "x (A) ..." was parsed: completed, no priority, "(A)" is description text
C11_WitnessPriorityAfterX ==
    /\ pc = "parsed"
    /\ Len(split_whitespace(text)) >= 2
    /\ split_whitespace(text)[1] = TokX
    /\ split_whitespace(text)[2] = TokPrioA
    /\ Unwrap(parsed.val).priority = None
    /\ split_whitespace(Unwrap(parsed.val).description)[1] = TokPrioA

----------------------------------------------------------------------------
(* C12 *)

\* the tokens of a line behind its header
BodyTokens(toks) == SubSeq(toks, HeaderLen(toks) + 1, Len(toks))

IsTagToken(w) == TagShaped(w) /\ ~ContextShaped(w) /\ ~ProjectShaped(w)

IsDescriptionWord(w) == ~ContextShaped(w) /\ ~ProjectShaped(w) /\ ~TagShaped(w)

\* the key and the value of a tag token: the text before and after its
\* first ":"
TagKey(w) == SubSeq(w, 1, (CHOOSE i \in 1..Len(w) : w[i] = ":" /\ \A j \in 1..(i - 1) : w[j] # ":") - 1)
TagValue(w) == SubSeq(w, Len(TagKey(w)) + 2, Len(w))

\* the tags of a sequence of tokens: per key the value of its last tag token
TagsOf(body) ==
    LET idx == {i \in 1..Len(body) : IsTagToken(body[i])}
    IN  [k \in {TagKey(body[i]) : i \in idx} |->
            TagValue(body[CHOOSE i \in idx :
                            /\ TagKey(body[i]) = k
                            /\ \A j \in idx : TagKey(body[j]) = k => j <= i])]

\* the tokens without their first character
Stripped(ws) == [i \in 1..Len(ws) |-> Tail(ws[i])]

\* C12: behind the header, the contexts are the "@..." tokens and the
\* projects the "+..." tokens, in order and without their sign; the tags are
\* the other tokens with a non-empty key and value around their first ":",
\* a later one overwriting an earlier one of the same key; the description
\* is the remaining tokens in order, joined by single spaces.
C12_TokenClassification ==
    pc = "parsed" =>
        LET body == BodyTokens(split_whitespace(text))
            t == Unwrap(parsed.val)
        IN  /\ t.contexts = Stripped(SelectSeq(body, ContextShaped))
            /\ t.projects = Stripped(SelectSeq(body, ProjectShaped))
            /\ t.tags = TagsOf(body)
            /\ t.description = join(SelectSeq(body, IsDescriptionWord), <<" ">>)

\* a line with the tags k:v and then k:w and a word was parsed: the tag k
\* has the value w
C12_Witness ==
    /\ pc = "parsed"
    /\ split_whitespace(text) = <<TokTag1, TokWord, TokTag2>>
    /\ Unwrap(parsed.val).tags = (<<"k">> :> <<"w">>)
    /\ Unwrap(parsed.val).description = TokWord

\* a bare "+" and ":v" were parsed as description words
C12_WitnessSigns ==
    /\ pc = "parsed"
    /\ split_whitespace(text) = <<TokPlus, TokNoKey>>
    /\ Unwrap(parsed.val).description = join(<<TokPlus, TokNoKey>>, <<" ">>)
    /\ Unwrap(parsed.val).projects = <<>>
    /\ DOMAIN Unwrap(parsed.val).tags = {}

\* a bare "@", "k:" and "a@b" were parsed as description words
C12_WitnessWords ==
    /\ pc = "parsed"
    /\ split_whitespace(text) = <<TokAt, TokNoValue, TokMail>>
    /\ Unwrap(parsed.val).description = join(<<TokAt, TokNoValue, TokMail>>, <<" ">>)
    /\ Unwrap(parsed.val).contexts = <<>>
    /\ DOMAIN Unwrap(parsed.val).tags = {}

----------------------------------------------------------------------------
(* Scenario: a record is built by Todo::new or parse_todo and then changed
   by calls of its methods. last holds the last call, the record before it
   and all calls made so far. *)

MaxCalls == 3

SeedDescriptions == {TokWord, <<>>}

SeedLines ==
    {join(ws, <<" ">>) : ws \in
        {<<TokX, TokWord>>,
         <<TokX, TokDate1, TokWord>>,
         <<TokX, TokDate1, TokDate2, TokWord>>,
         <<TokPrioA, TokDate2, TokWord>>,
         <<TokWord, TokCtx, TokCtx, TokProj, TokProj>>,
         <<TokWord, TokCtx, TokTag1>>}}

Today == {Date1, Date2}

RecordPriorities == {"A", "B"}

RecordTags == {<<(<<"k">>), (<<"v">>)>>, <<(<<"k">>), (<<"w">>)>>}

RecordVarsIdle == reparsed = NoResult /\ todos = <<>> /\ ret = NoResult /\ pstr = <<>>

InitRecordCalls ==
    /\ pc = "start"
    /\ text = <<>>
    /\ todo = None
    /\ parsed = NoResult
    /\ last = [op |-> "none", arg |-> Unit, before |-> None, calls |-> <<>>]
    /\ RecordVarsIdle

RecordFrame == UNCHANGED <<reparsed, todos, ret, pstr>>

\* Todo::new(description)
TodoNew(description) ==
    /\ pc = "start"
    /\ todo' = Some(Todo_new(description))
    /\ last' = [last EXCEPT !.op = "new", !.arg = description]
    /\ pc' = "todo"
    /\ UNCHANGED <<text, parsed>>
    /\ RecordFrame

\* parse_todo(line), successful
ParseTodo(line) ==
    /\ pc = "start"
    /\ parse_todo(line).ok
    /\ text' = line
    /\ parsed' = parse_todo(line)
    /\ todo' = parse_todo(line).val
    /\ last' = [last EXCEPT !.op = "parse_todo", !.arg = line]
    /\ pc' = "todo"
    /\ RecordFrame

\* a call of a method on the record: the record after it is result
MethodCall(op, arg, result) ==
    /\ pc = "todo"
    /\ Len(last.calls) < MaxCalls
    /\ todo' = Some(result)
    /\ last' = [op |-> op, arg |-> arg, before |-> todo,
                calls |-> Append(last.calls, [op |-> op, arg |-> arg])]
    /\ UNCHANGED <<pc, text, parsed>>
    /\ RecordFrame

TodoAddContext(c) == MethodCall("add_context", c, add_context(Unwrap(todo), c))

TodoAddProject(p) == MethodCall("add_project", p, add_project(Unwrap(todo), p))

TodoAddTag(kv) == MethodCall("add_tag", kv, add_tag(Unwrap(todo), kv[1], kv[2]))

TodoWithPriority(p) == MethodCall("with_priority", p, with_priority(Unwrap(todo), p))

TodoWithCreationDate(d) ==
    MethodCall("with_creation_date", d, with_creation_date(Unwrap(todo), d))

TodoComplete(now) == MethodCall("complete", now, complete(Unwrap(todo), now))

TodoUncomplete == MethodCall("uncomplete", Unit, uncomplete(Unwrap(todo)))

NextRecord ==
    \/ \E d \in SeedDescriptions : TodoNew(d)
    \/ \E line \in SeedLines : ParseTodo(line)
    \/ \E c \in ContextPool : TodoAddContext(c)
    \/ \E p \in ProjectPool : TodoAddProject(p)
    \/ \E kv \in RecordTags : TodoAddTag(kv)
    \/ \E p \in RecordPriorities : TodoWithPriority(p)
    \/ \E d \in Today : TodoWithCreationDate(d)
    \/ \E now \in Today : TodoComplete(now)
    \/ TodoUncomplete

SpecRecord == InitRecordCalls /\ [][NextRecord]_vars

----------------------------------------------------------------------------
(* C13 *)

\* the arguments of the calls of op, in call order
ArgsOf(calls, op) ==
    LET sel == SelectSeq(calls, LAMBDA c : c.op = op)
    IN  [i \in 1..Len(sel) |-> sel[i].arg]

\* a sequence without the repetitions of its elements
RECURSIVE FirstOccurrences(_)
FirstOccurrences(xs) ==
    IF xs = <<>> THEN <<>>
    ELSE LET init == FirstOccurrences(SubSeq(xs, 1, Len(xs) - 1))
         IN  IF \E i \in 1..Len(init) : init[i] = xs[Len(xs)]
             THEN init ELSE Append(init, xs[Len(xs)])

NoDuplicates(xs) == \A i, j \in 1..Len(xs) : xs[i] = xs[j] => i = j

\* C13: add_context / add_project append the label when the record does
\* not hold it and leave the record as it is otherwise; a record built
\* from Todo::new has no duplicate context or project and holds them in
\* the order of their first insertion; a record as parse_todo returns it
\* holds one entry per "@token" / "+token" of the line.
C13_AddOnce ==
    pc = "todo" =>
        LET t == Unwrap(todo)
            b == Unwrap(last.before)
        IN  /\ last.op = "add_context" =>
                  t = IF \E i \in 1..Len(b.contexts) : b.contexts[i] = last.arg
                      THEN b ELSE [b EXCEPT !.contexts = Append(@, last.arg)]
            /\ last.op = "add_project" =>
                  t = IF \E i \in 1..Len(b.projects) : b.projects[i] = last.arg
                      THEN b ELSE [b EXCEPT !.projects = Append(@, last.arg)]
            /\ parsed = NoResult =>
                  /\ NoDuplicates(t.contexts) /\ NoDuplicates(t.projects)
                  /\ t.contexts = FirstOccurrences(ArgsOf(last.calls, "add_context"))
                  /\ t.projects = FirstOccurrences(ArgsOf(last.calls, "add_project"))
            /\ parsed.ok /\ last.calls = <<>> =>
                  /\ t.contexts = Stripped(SelectSeq(split_whitespace(text), ContextShaped))
                  /\ t.projects = Stripped(SelectSeq(split_whitespace(text), ProjectShaped))

\* on a record from Todo::new, a context was added, then another, then the
\* first again: the record holds the two in the order of insertion and the
\* third call changed nothing
C13_Witness ==
    /\ pc = "todo"
    /\ parsed = NoResult
    /\ Len(last.calls) = 3
    /\ \A i \in 1..3 : last.calls[i].op = "add_context"
    /\ last.calls[1].arg # last.calls[2].arg
    /\ last.calls[3].arg = last.calls[1].arg
    /\ Unwrap(todo).contexts = <<last.calls[1].arg, last.calls[2].arg>>
    /\ todo = last.before

\* a parsed record holds a context twice
C13_WitnessParsedDuplicate ==
    /\ pc = "todo"
    /\ parsed.ok
    /\ last.calls = <<>>
    /\ ~NoDuplicates(Unwrap(todo).contexts)
    /\ ~NoDuplicates(Unwrap(todo).projects)

----------------------------------------------------------------------------
(* C14 *)

\* the fields complete() and uncomplete() leave alone
OtherFields(t) ==
    <<t.priority, t.creation_date, t.description, t.contexts, t.projects, t.tags>>

\* C14: a record has a completion date only if it is completed; complete()
\* sets completed and stamps the current date only when no completion date
\* is stored, so a complete() right after a complete() changes nothing;
\* uncomplete() clears completed and the completion date; neither changes
\* any other field.
C14_CompletionDate ==
    pc = "todo" =>
        LET t == Unwrap(todo)
            b == Unwrap(last.before)
            n == Len(last.calls)
        IN  /\ IsSome(t.completion_date) => t.completed
            /\ last.op = "complete" =>
                  /\ t.completed
                  /\ t.completion_date =
                        IF IsSome(b.completion_date) THEN b.completion_date
                        ELSE Some(last.arg)
                  /\ OtherFields(t) = OtherFields(b)
                  /\ (n >= 2 /\ last.calls[n - 1].op = "complete") => t = b
            /\ last.op = "uncomplete" =>
                  /\ ~t.completed
                  /\ t.completion_date = None
                  /\ OtherFields(t) = OtherFields(b)

\* complete() was called twice on different days: the second call changed
\* nothing, the date is that of the first
C14_Witness ==
    /\ pc = "todo"
    /\ Len(last.calls) = 2
    /\ last.calls[1].op = "complete" /\ last.calls[2].op = "complete"
    /\ last.calls[1].arg # last.calls[2].arg
    /\ Unwrap(todo).completed
    /\ Unwrap(todo).completion_date = Some(last.calls[1].arg)
    /\ todo = last.before

\* uncomplete() cleared the completion date of a parsed completed record
C14_WitnessUncomplete ==
    /\ pc = "todo"
    /\ parsed.ok
    /\ last.op = "uncomplete"
    /\ IsSome(Unwrap(last.before).completion_date)
    /\ ~Unwrap(todo).completed
    /\ Unwrap(todo).completion_date = None

\* complete() stamped a record that parse_todo returned completed and
\* without a completion date
C14_WitnessStampParsed ==
    /\ pc = "todo"
    /\ parsed.ok
    /\ last.op = "complete"
    /\ Unwrap(last.before).completed
    /\ Unwrap(last.before).completion_date = None
    /\ Unwrap(todo).completion_date = Some(last.arg)

====
